---- MODULE Spec2Model ----
(***************************************************************************)
(* gifmeta: the metadata parse of a GIF file (src/gifmeta/gif.py).         *)
(*                                                                         *)
(* The file is an input that is revealed as the parse reads it: every     *)
(* action draws the bytes found at the cursor (a "window" of the file,     *)
(* possibly cut short by the end of the file) from a bounded set, and the  *)
(* stream methods of _GifStream are operators over such a window.          *)
(***************************************************************************)
EXTENDS Integers, Sequences, FiniteSets, TLC

----------------------------------------------------------------------------
(* Bounds of the model *)

\* Blocks dispatched before the file has to end (trailer, garbage or end of file).
MaxBlocks == 3
\* The same, for the runs that draw every color table size code.
MaxTableBlocks == 1
\* How many sub-blocks the chains of the chain files have, and how many
\* blocks those files have.
MaxChain == 2
MaxChainBlocks == 1
\* How many blocks the files of the parse run to its end have.
MaxLiveBlocks == 2

----------------------------------------------------------------------------
(* Constants of gif.py *)

EXT_INTRODUCER == 33
EXT_GRAPHIC_CONTROL_LABEL == 249
TRAILER_LABEL == 59
IMAGE_SEPARATOR == 44

GIF_87a == "87a"
GIF_89a == "89a"
VALID_GIF_REVS == {GIF_87a, GIF_89a}

\* Python's None: for a descriptor or extension object, for a color table (no
\* table is ever empty), for the exception and the block type of a result.
None == [none |-> TRUE]
NoColortable == <<>>
NoException == "None"
NoBlocktype == "None"

Min(a, b) == IF a < b THEN a ELSE b

\* x >> k and x & (2^n - 1), as the packed-field decodes use them.
Shr(x, k) == x \div (2 ^ k)
Low(x, n) == x % (2 ^ n)

----------------------------------------------------------------------------
(* The byte cursor (mmaputils.MmapCursor, an external collaborator): a       *)
(* window of the file starting at the stream's position, and an offset in    *)
(* it. read() peeks and returns what is there; the next_*() reads fail fast  *)
(* when fewer bytes are left than asked for; position may be set past the    *)
(* end.                                                                      *)

Cursor(window) == [data |-> window, position |-> 0]

CanRead(c, n) == c.position + n <= Len(c.data)

\* stream.read(n): the bytes at the cursor, fewer than n at the end of the file.
Read(c, n) == SubSeq(c.data, c.position + 1, Min(c.position + n, Len(c.data)))

\* stream.position += n
Skip(c, n) == [c EXCEPT !.position = @ + n]

\* int.from_bytes(bytes, "little")
RECURSIVE LittleEndian(_)
LittleEndian(bytes) ==
    IF bytes = <<>> THEN 0 ELSE Head(bytes) + 256 * LittleEndian(Tail(bytes))

\* bytes.decode("ascii"), on the characters the inputs are drawn from.
AsciiChar ==
    (70 :> "F") @@ (71 :> "G") @@ (73 :> "I") @@ (88 :> "X") @@
    (55 :> "7") @@ (56 :> "8") @@ (57 :> "9") @@ (97 :> "a")

RECURSIVE Ascii(_)
Ascii(bytes) ==
    IF bytes = <<>> THEN "" ELSE AsciiChar[Head(bytes)] \o Ascii(Tail(bytes))

\* A run of fixed-width reads and skips, in order. plan is a sequence of
\* <<kind, n>>: "raw" next(n), "byte" next_byte(), "int" next_int(n),
\* "ascii" next_ascii(n), "skip" position += n. The result holds the values
\* read, and ok = FALSE with the cursor left at the read that fell short.
RECURSIVE ReadPlan(_, _, _)
ReadPlan(c, plan, vals) ==
    IF plan = <<>> THEN [ok |-> TRUE, c |-> c, vals |-> vals]
    ELSE LET kind == Head(plan)[1]
             n    == Head(plan)[2]
         IN  IF kind = "skip" THEN ReadPlan(Skip(c, n), Tail(plan), vals)
             ELSE IF ~CanRead(c, n) THEN [ok |-> FALSE, c |-> c, vals |-> vals]
             ELSE LET bytes == Read(c, n)
                      v == CASE kind = "raw"   -> bytes
                             [] kind = "byte"  -> bytes[1]
                             [] kind = "int"   -> LittleEndian(bytes)
                             [] kind = "ascii" -> Ascii(bytes)
                  IN  ReadPlan(Skip(c, n), Tail(plan), Append(vals, v))

\* What a stream method hands back: a value, or a raised exception, and the cursor.
Return(v, c) == [err |-> NoException, value |-> v, c |-> c]
Raise(e, c) == [err |-> e, value |-> None, c |-> c]

----------------------------------------------------------------------------
(* constants.py *)

GifVersion_GIF87a == "GIF87a"
GifVersion_GIF89a == "GIF89a"

DisposalMethodLenient(value) ==
    [err |-> "None",
     member |-> IF value \in 0..3
                THEN <<"NONE", "NO_DISPOSE", "RESTORE_BACKGROUND", "RESTORE_PREVIOUS">>[value + 1]
                ELSE "NONE"]

\* DisposalMethod(value): the member with that value; the Enum constructor raises
\* ValueError for a value no member has.
DisposalMethodMembers ==
    (0 :> "NONE") @@ (1 :> "NO_DISPOSE") @@
    (2 :> "RESTORE_BACKGROUND") @@ (3 :> "RESTORE_PREVIOUS")

DisposalMethod(value) ==
    IF value \in DOMAIN DisposalMethodMembers
    THEN [err |-> NoException, member |-> DisposalMethodMembers[value]]
    ELSE [err |-> "ValueError", member |-> None]

----------------------------------------------------------------------------
(* The descriptor types *)

NewLogicalScreenDescriptor ==
    [width |-> 0, height |-> 0, colortable_exists |-> FALSE, color_resolution |-> 0,
     colortable_is_sorted |-> FALSE, colortable_size |-> 0,
     background_color_index |-> 0, pixel_aspect_ratio |-> 0]

NewImageDescriptor ==
    [leftpos |-> 0, toppos |-> 0, width |-> 0, height |-> 0, interlace |-> FALSE,
     colortable_exists |-> FALSE, colortable_is_sorted |-> FALSE, colortable_size |-> 0]

NewGraphicControlExtension ==
    [disposal_method |-> "NONE", user_input_flag |-> FALSE, transparent_flag |-> FALSE,
     transparent_color |-> 0, delay |-> 0]

num_colors_short(desc) == 2 ^ desc.colortable_size

\* LogicalScreenDescriptor.num_colors / ImageDescriptor.num_colors
num_colors(desc) == 2 ^ (desc.colortable_size + 1)

\* GraphicControlExtension.delay_ms
delay_ms(ext) == ext.delay * 10

----------------------------------------------------------------------------
(* _GifStream *)

\* Both reads first, the checks after.
consume_header_eager(c) ==
    LET s == ReadPlan(c, << <<"ascii", 3>>, <<"ascii", 3>> >>, <<>>)
    IN  IF ~s.ok THEN Raise("ShortRead", s.c)
        ELSE IF s.vals[1] # "GIF" THEN Raise("BadSignature", s.c)
        ELSE IF s.vals[2] \notin {"87a", "89a"} THEN Raise("InvalidVersion", s.c)
        ELSE Return(IF s.vals[2] = "87a" THEN "GIF87a" ELSE "GIF89a", s.c)

consume_header(c) ==
    LET s == ReadPlan(c, << <<"ascii", 3>> >>, <<>>)
    IN  IF ~s.ok THEN Raise("ShortRead", s.c)
        ELSE IF s.vals[1] # "GIF" THEN Raise("BadSignature", s.c)
        ELSE LET v == ReadPlan(s.c, << <<"ascii", 3>> >>, <<>>)
             IN  IF ~v.ok THEN Raise("ShortRead", v.c)
                 ELSE IF v.vals[1] \notin VALID_GIF_REVS THEN Raise("InvalidVersion", v.c)
                 ELSE Return(IF v.vals[1] = GIF_87a THEN GifVersion_GIF87a
                             ELSE GifVersion_GIF89a, v.c)

ScreenPacked(desc, packed_fields) ==
    [desc EXCEPT !.colortable_size = Low(packed_fields, 3),
                 !.colortable_is_sorted = (Low(Shr(packed_fields, 3), 1) # 0),
                 !.color_resolution = Low(Shr(packed_fields, 4), 3),
                 !.colortable_exists = (Low(Shr(packed_fields, 7), 1) # 0)]

consume_screen_descriptor(c) ==
    LET r == ReadPlan(c, << <<"int", 2>>, <<"int", 2>>, <<"byte", 1>>,
                            <<"byte", 1>>, <<"byte", 1>> >>, <<>>)
    IN  IF ~r.ok THEN Raise("ShortRead", r.c)
        ELSE Return(ScreenPacked([NewLogicalScreenDescriptor EXCEPT
                                     !.width = r.vals[1],
                                     !.height = r.vals[2],
                                     !.background_color_index = r.vals[4],
                                     !.pixel_aspect_ratio = r.vals[5]],
                                 r.vals[3]), r.c)

\* for _ in range(num_colors): r, g, b = self.stream.next(3); colortable.append((r, g, b))
\* The loop reads the entries that are wholly there, and fails at the first that is not.
consume_color_table(c, n) ==
    LET left == IF CanRead(c, 0) THEN Len(c.data) - c.position ELSE 0
        whole == Min(n, left \div 3)
    IN  IF whole < n THEN Raise("ShortRead", Skip(c, 3 * whole))
        ELSE Return([i \in 1..n |-> Read(Skip(c, 3 * (i - 1)), 3)], Skip(c, 3 * n))

ImagePacked(desc, packed_fields) ==
    [desc EXCEPT !.colortable_size = Low(packed_fields, 3),
                 !.colortable_is_sorted = (Low(Shr(packed_fields, 5), 1) # 0),
                 !.colortable_exists = (Low(Shr(packed_fields, 7), 1) # 0)]
    \* desc.interlaced = ...: an attribute the type does not declare
    @@ [interlaced |-> (Low(Shr(packed_fields, 6), 1) # 0)]

consume_image_descriptor(c) ==
    LET s == ReadPlan(c, << <<"byte", 1>> >>, <<>>)
    IN  IF ~s.ok THEN Raise("ShortRead", s.c)
        ELSE IF s.vals[1] # IMAGE_SEPARATOR THEN Raise("BadSeparator", s.c)
        ELSE LET r == ReadPlan(s.c, << <<"int", 2>>, <<"int", 2>>, <<"int", 2>>,
                                       <<"int", 2>>, <<"byte", 1>> >>, <<>>)
             IN  IF ~r.ok THEN Raise("ShortRead", r.c)
                 ELSE Return(ImagePacked([NewImageDescriptor EXCEPT
                                             !.leftpos = r.vals[1],
                                             !.toppos = r.vals[2],
                                             !.width = r.vals[3],
                                             !.height = r.vals[4]],
                                         r.vals[5]), r.c)

BT_IMAGE_DATA == "IMAGE_DATA"
BT_EXT_GRAPHIC_CONTROL == "EXT_GRAPHIC_CONTROL"
BT_EXT_UNKNOWN == "EXT_UNKNOWN"
BT_TRAILER == "TRAILER"

\* The length test first, the trailer test after.
check_blocktype_length_first(signature) ==
    IF Len(signature) < 2 THEN [err |-> "UnexpectedEOF", blocktype |-> "None"]
    ELSE IF signature[1] = 59 THEN [err |-> "None", blocktype |-> "TRAILER"]
    ELSE IF signature[1] = 44 THEN [err |-> "None", blocktype |-> "IMAGE_DATA"]
    ELSE IF signature[1] = 33
         THEN IF signature[2] = 249
              THEN [err |-> "None", blocktype |-> "EXT_GRAPHIC_CONTROL"]
              ELSE [err |-> "None", blocktype |-> "EXT_UNKNOWN"]
    ELSE [err |-> "UnknownBlock", blocktype |-> "None"]

\* A file that has ended taken for one that ends with its trailer.
check_blocktype_eof_is_trailer(signature) ==
    IF Len(signature) = 0 THEN [err |-> "None", blocktype |-> "TRAILER"]
    ELSE check_blocktype_length_first(signature)

\* check_blocktype, on signature = self.stream.read(2). The cursor does not move.
\* signature[0] of an empty read raises IndexError.
check_blocktype(signature) ==
    IF Len(signature) = 0 THEN [err |-> "IndexError", blocktype |-> NoBlocktype]
    ELSE IF signature[1] = TRAILER_LABEL THEN [err |-> NoException, blocktype |-> BT_TRAILER]
    ELSE IF Len(signature) < 2 THEN [err |-> "UnexpectedEOF", blocktype |-> NoBlocktype]
    ELSE IF signature[1] = IMAGE_SEPARATOR THEN [err |-> NoException, blocktype |-> BT_IMAGE_DATA]
    ELSE IF signature[1] = EXT_INTRODUCER
         THEN IF signature[2] = EXT_GRAPHIC_CONTROL_LABEL
              THEN [err |-> NoException, blocktype |-> BT_EXT_GRAPHIC_CONTROL]
              ELSE [err |-> NoException, blocktype |-> BT_EXT_UNKNOWN]
    ELSE [err |-> "UnknownBlock", blocktype |-> NoBlocktype]

\* The loop of skip_data, entered with the first size byte read.
RECURSIVE SkipLoop(_, _, _)
SkipLoop(c, data_size, total_data) ==
    IF data_size = 0 THEN Return(total_data, c)
    ELSE LET c1 == Skip(c, data_size)
         IN  IF ~CanRead(c1, 1) THEN Raise("ShortRead", c1)
             ELSE LET next == Read(c1, 1)[1]
                  IN  SkipLoop(Skip(c1, 1), next, total_data + next)

\* The size bytes counted with the data.
skip_data_with_sizes(c) ==
    LET r == IF ~CanRead(c, 1) THEN Raise("ShortRead", c)
             ELSE SkipLoop(Skip(c, 1), Read(c, 1)[1], Read(c, 1)[1])
    IN  IF r.err # NoException THEN r
        ELSE Return(r.c.position - c.position - 1, r.c)

skip_data(c) ==
    IF ~CanRead(c, 1) THEN Raise("ShortRead", c)
    ELSE LET data_size == Read(c, 1)[1]
         IN  SkipLoop(Skip(c, 1), data_size, data_size)

skip_image_data(c) == skip_data(Skip(c, 1))

skip_extension(c) ==
    LET s == ReadPlan(c, << <<"byte", 1>> >>, <<>>)
    IN  IF ~s.ok THEN Raise("ShortRead", s.c)
        ELSE IF s.vals[1] # EXT_INTRODUCER THEN Raise("UnexpectedByte", s.c)
        ELSE skip_data(Skip(s.c, 1))

GraphicControlPacked(ext, packed_fields) ==
    LET d == DisposalMethod(Low(Shr(packed_fields, 2), 3))
    IN  [err |-> d.err,
         ext |-> [ext EXCEPT !.transparent_flag = (Low(packed_fields, 1) # 0),
                             !.user_input_flag = (Low(Shr(packed_fields, 1), 1) # 0),
                             !.disposal_method = d.member]]

\* The block size byte decides where the block ends.
consume_graphic_control_extension_sized(c) ==
    LET s == ReadPlan(c, << <<"raw", 2>> >>, <<>>)
    IN  IF ~s.ok THEN Raise("ShortRead", s.c)
        ELSE IF s.vals[1] # <<33, 249>> THEN Raise("BadExtSignature", s.c)
        ELSE LET r == ReadPlan(s.c, << <<"byte", 1>>, <<"byte", 1>>, <<"int", 2>>,
                                       <<"byte", 1>> >>, <<>>)
             IN  IF ~r.ok THEN Raise("ShortRead", r.c)
                 ELSE LET p == GraphicControlPacked(
                                   [NewGraphicControlExtension EXCEPT
                                       !.delay = r.vals[3],
                                       !.transparent_color = r.vals[4]],
                                   r.vals[2])
                          end == [r.c EXCEPT !.position = s.c.position + 1 + r.vals[1] + 1]
                      IN  IF p.err # NoException THEN Raise(p.err, end)
                          ELSE Return(p.ext, end)

consume_graphic_control_extension(c) ==
    LET s == ReadPlan(c, << <<"raw", 2>> >>, <<>>)
    IN  IF ~s.ok THEN Raise("ShortRead", s.c)
        ELSE IF s.vals[1] # <<EXT_INTRODUCER, EXT_GRAPHIC_CONTROL_LABEL>>
             THEN Raise("BadExtSignature", s.c)
        ELSE LET r == ReadPlan(s.c, << <<"skip", 1>>, <<"byte", 1>>, <<"int", 2>>,
                                       <<"byte", 1>>, <<"skip", 1>> >>, <<>>)
             IN  IF ~r.ok THEN Raise("ShortRead", r.c)
                 ELSE LET p == GraphicControlPacked(
                                   [NewGraphicControlExtension EXCEPT
                                       !.delay = r.vals[2],
                                       !.transparent_color = r.vals[3]],
                                   r.vals[1])
                      IN  IF p.err # NoException THEN Raise(p.err, r.c)
                          ELSE Return(p.ext, r.c)

----------------------------------------------------------------------------
(* GifImage *)

\* GifImage.__init__ and its __parse_metadata, on the stream at cursor c.
GifImage(c, gc) ==
    LET d == consume_image_descriptor(c)
    IN  IF d.err # NoException THEN Raise(d.err, d.c)
        ELSE LET t == IF d.value.colortable_exists
                      THEN consume_color_table(d.c, num_colors(d.value))
                      ELSE Return(NoColortable, d.c)
             IN  IF t.err # NoException THEN Raise(t.err, t.c)
                 ELSE LET s == skip_image_data(t.c)
                      IN  IF s.err # NoException THEN Raise(s.err, s.c)
                          ELSE Return([graphic_control |-> gc,
                                       colortable |-> t.value,
                                       image_descriptor |-> d.value,
                                       image_data_size |-> s.value], s.c)

----------------------------------------------------------------------------
(* The files the parse is run on: what each step may find at the cursor. *)

\* How many cut lengths are drawn at the start and at the end of a window.
CutHead == 12
CutTail == 3

\* The windows that a file ending inside w leaves: w cut to lo.. bytes.
Truncations(w, lo) ==
    {SubSeq(w, 1, k) : k \in {j \in lo..(Len(w) - 1) : j < lo + CutHead \/ j + CutTail >= Len(w)}}

SignatureInputs == {<<71, 73, 70>>, <<71, 73, 88>>}             \* "GIF", "GIX"
VersionInputs == {<<56, 55, 97>>, <<56, 57, 97>>, <<56, 56, 97>>}  \* "87a", "89a", "88a"

HeaderWindows ==
    UNION {{s \o v} \cup Truncations(s \o v, 0) : s \in SignatureInputs, v \in VersionInputs}

\* width 513, height 258, background index 5, aspect ratio 49
ScreenBytes(packed) == <<1, 2, 2, 1, packed, 5, 49>>

ScreenWindows(packedSet) ==
    UNION {{ScreenBytes(p)} \cup Truncations(ScreenBytes(p), 0) : p \in packedSet}

\* A color table of n entries, entry e (from 0) being (e, 255 - e, 128).
TableBytes(n) ==
    [j \in 1..(3 * n) |->
        LET e == (j - 1) \div 3
            k == (j - 1) % 3
        IN  IF k = 0 THEN e % 256 ELSE IF k = 1 THEN 255 - (e % 256) ELSE 128]

TableWindows(n) == {TableBytes(n)} \cup Truncations(TableBytes(n), 0)

\* A chain of data sub-blocks with the given lengths, and its terminator.
RECURSIVE ChainBytes(_)
ChainBytes(lens) ==
    IF lens = <<>> THEN <<0>>
    ELSE <<Head(lens)>> \o [i \in 1..Head(lens) |-> 170] \o ChainBytes(Tail(lens))

ImageChains == {<<>>, <<2, 1>>}
ExtensionChains == {<<3>>}
ExtensionLabels == {254}         \* comment
GraphicControlSizes == {4, 0}    \* the block size byte

\* delay 50, transparent color 7
GraphicControlBytes(size, packed) ==
    <<EXT_INTRODUCER, EXT_GRAPHIC_CONTROL_LABEL, size, packed, 50, 0, 7, 0>>

GraphicControlWindows(packedSet) ==
    UNION {{GraphicControlBytes(s, p)} \cup Truncations(GraphicControlBytes(s, p), 2) :
              s \in GraphicControlSizes, p \in packedSet}

\* image at (1, 2), 3 x 4, LZW code size 8
ImageBytes(packed, lens) ==
    <<IMAGE_SEPARATOR, 1, 0, 2, 0, 3, 0, 4, 0, packed>>
    \o (IF Shr(packed, 7) = 1 THEN TableBytes(2 ^ (Low(packed, 3) + 1)) ELSE <<>>)
    \o <<8>> \o ChainBytes(lens)

ImageWindows(packedSet) ==
    UNION {{ImageBytes(p, l)} \cup Truncations(ImageBytes(p, l), 2) :
              p \in packedSet, l \in ImageChains}

\* Chains of up to MaxChain sub-blocks, of the least length, a middle one and the greatest.
ChainLengthInputs == {1, 3, 255}
ChainInputs == UNION {[1..n -> ChainLengthInputs] : n \in 0..MaxChain}

ChainImageWindows ==
    UNION {{ImageBytes(0, l)} \cup Truncations(ImageBytes(0, l), 2) : l \in ChainInputs}

ExtensionBytes(label, lens) == <<EXT_INTRODUCER, label>> \o ChainBytes(lens)

ExtensionWindows ==
    UNION {{ExtensionBytes(b, l)} \cup Truncations(ExtensionBytes(b, l), 2) :
              b \in ExtensionLabels, l \in ExtensionChains}

\* What read(2) may return at a block boundary: the start of a block, the
\* trailer (last byte of the file or not), a byte no block starts with, a
\* file that ends after one byte, a file that has ended.
EndingSignatures ==
    {<<>>, <<TRAILER_LABEL>>, <<TRAILER_LABEL, 0>>, <<IMAGE_SEPARATOR>>,
     <<EXT_INTRODUCER>>, <<0, 0>>}

BlockSignatures ==
    {<<IMAGE_SEPARATOR, 1>>, <<EXT_INTRODUCER, EXT_GRAPHIC_CONTROL_LABEL>>}
    \cup {<<EXT_INTRODUCER, b>> : b \in ExtensionLabels}

ScreenPackedInputs == {7, 145}             \* no table (size code 7); 4 colors
GraphicControlPackedInputs == {0, 9, 16}   \* NONE; RESTORE_BACKGROUND, transparent; code 4
ImagePackedInputs == {0, 64, 161}          \* plain; interlaced; 4 sorted colors

AllBytes == 0..255

\* Every result of read(2): two bytes, one byte, none.
AllSignatures == {<<>>} \cup {<<a>> : a \in AllBytes} \cup (AllBytes \X AllBytes)

NoTableScreenPacked == {7}
GraphicControlSignature == {<<EXT_INTRODUCER, EXT_GRAPHIC_CONTROL_LABEL>>}
ImageSignature == {<<IMAGE_SEPARATOR, 1>>}

\* Every size code, with a table, and one without.
TablePackedInputs == {128 + code : code \in 0..7} \cup {7}

----------------------------------------------------------------------------
(* Gif.__init__ and Gif.__parse_metadata *)

VARIABLES
    pc,                \* where __parse_metadata is
    position,          \* gifstream.stream.position
    ahead,             \* the bytes read(2) returned at position, not yet consumed
    eof,               \* the reads have met the end of the file
    closed,            \* gifstream.close() was called
    version,           \* self.version
    logical_screen_descriptor,
    colortable,        \* self.colortable, the global color table
    graphic_control,   \* the pending graphic control extension
    images,            \* images, self.images once the parse is done
    blocktype,         \* what check_blocktype returned
    err,               \* the exception that ended the parse
    warnings,          \* "warning: no global color table" lines printed
    history,           \* the blocks dispatched so far and where each started
    window             \* the bytes the last step found at the cursor

vars == <<pc, position, ahead, eof, closed, version, logical_screen_descriptor,
          colortable, graphic_control, images, blocktype, err, warnings, history,
          window>>

Init ==
    /\ pc = "header"
    /\ position = 0
    /\ ahead = <<>>
    /\ eof = FALSE
    /\ closed = FALSE
    /\ version = GifVersion_GIF87a
    /\ logical_screen_descriptor = None
    /\ colortable = NoColortable
    /\ graphic_control = None
    /\ images = <<>>
    /\ blocktype = NoBlocktype
    /\ err = NoException
    /\ warnings = 0
    /\ history = <<>>
    /\ window = <<>>

EndOfFileErrors == {"ShortRead", "IndexError", "UnexpectedEOF"}

\* An exception leaves __parse_metadata and Gif.__init__: no Gif object is
\* made, and what was built is dropped. No handler closes the stream.
Fail(e, pos, w) ==
    /\ pc' = "failed"
    /\ window' = w
    /\ err' = e
    /\ position' = pos
    /\ eof' = (eof \/ e \in EndOfFileErrors)
    /\ ahead' = <<>>
    /\ version' = GifVersion_GIF87a
    /\ logical_screen_descriptor' = None
    /\ colortable' = NoColortable
    /\ graphic_control' = None
    /\ images' = <<>>
    /\ blocktype' = NoBlocktype
    /\ history' = <<>>
    /\ UNCHANGED <<closed, warnings>>

\* The cursor after a stream method that was given window w at position.
Advance(r, w) ==
    /\ window' = w
    /\ position' = position + r.c.position
    /\ eof' = (eof \/ r.c.position > Len(w))
    /\ ahead' = <<>>

ConsumeHeader ==
    /\ pc = "header"
    /\ \E w \in HeaderWindows :
          LET r == consume_header(Cursor(w))
          IN  IF r.err # NoException THEN Fail(r.err, position + r.c.position, w)
              ELSE /\ version' = r.value
                   /\ Advance(r, w)
                   /\ pc' = "screen"
                   /\ UNCHANGED <<closed, logical_screen_descriptor, colortable,
                                  graphic_control, images, blocktype, err, warnings, history>>

ConsumeScreenDescriptor(packedSet) ==
    /\ pc = "screen"
    /\ \E w \in ScreenWindows(packedSet) :
          LET r == consume_screen_descriptor(Cursor(w))
          IN  IF r.err # NoException THEN Fail(r.err, position + r.c.position, w)
              ELSE /\ logical_screen_descriptor' = r.value
                   /\ Advance(r, w)
                   /\ pc' = "colortable"
                   /\ UNCHANGED <<closed, version, colortable, graphic_control, images,
                                  blocktype, err, warnings, history>>

NoGlobalColorTableFatal == Fail("NoColortable", position, <<>>)

\* print("warning: no global color table")
NoGlobalColorTable ==
    /\ warnings' = warnings + 1
    /\ pc' = "check"
    /\ window' = <<>>
    /\ UNCHANGED <<position, ahead, eof, closed, version, logical_screen_descriptor,
                   colortable, graphic_control, images, blocktype, err, history>>

GlobalColorTable ==
    /\ pc = "colortable"
    /\ IF logical_screen_descriptor.colortable_exists
       THEN \E w \in TableWindows(num_colors(logical_screen_descriptor)) :
               LET r == consume_color_table(Cursor(w), num_colors(logical_screen_descriptor))
               IN  IF r.err # NoException THEN Fail(r.err, position + r.c.position, w)
                   ELSE /\ colortable' = r.value
                        /\ Advance(r, w)
                        /\ pc' = "check"
                        /\ UNCHANGED <<closed, version, logical_screen_descriptor,
                                       graphic_control, images, blocktype, err, warnings,
                                       history>>
       ELSE NoGlobalColorTable

\* blocktype = gifstream.check_blocktype(). A file of at most `limit` blocks.
CheckBlocktype(signatures, limit) ==
    /\ pc = "check"
    /\ \E signature \in (IF eof THEN {<<>>}
                         ELSE IF Len(history) < limit THEN signatures \cup EndingSignatures
                         ELSE EndingSignatures) :
          LET r == check_blocktype(signature)
          IN  IF r.err # NoException THEN Fail(r.err, position, signature)
              ELSE /\ blocktype' = r.blocktype
                   /\ ahead' = signature
                   /\ window' = signature
                   /\ eof' = (Len(signature) < 2)
                   /\ pc' = "dispatch"
                   /\ UNCHANGED <<position, closed, version, logical_screen_descriptor,
                                  colortable, graphic_control, images, err, warnings, history>>

\* break; self.images = images; gifstream.close()
DispatchTrailer ==
    /\ pc = "dispatch"
    /\ blocktype = BT_TRAILER
    /\ closed' = TRUE
    /\ pc' = "done"
    /\ window' = <<>>
    /\ UNCHANGED <<position, ahead, eof, version, logical_screen_descriptor, colortable,
                   graphic_control, images, blocktype, err, warnings, history>>

TruthyNever(x) == FALSE

\* if graphic_control: a GraphicControlExtension object is truthy, None is not.
Truthy(x) == x # None

Dispatched == Append(history, [blocktype |-> blocktype, position |-> position])

DispatchGraphicControl(packedSet) ==
    /\ pc = "dispatch"
    /\ blocktype = BT_EXT_GRAPHIC_CONTROL
    /\ IF Truthy(graphic_control) THEN Fail("TwoGraphicControl", position, <<>>)
       ELSE \E w \in {x \in GraphicControlWindows(packedSet) : SubSeq(x, 1, 2) = ahead} :
               LET r == consume_graphic_control_extension(Cursor(w))
               IN  IF r.err # NoException THEN Fail(r.err, position + r.c.position, w)
                   ELSE \* block_offset stands for the identity of the object
                        /\ graphic_control' = r.value @@ [block_offset |-> position]
                        /\ Advance(r, w)
                        /\ history' = Dispatched
                        /\ pc' = "check"
                        /\ UNCHANGED <<closed, version, logical_screen_descriptor,
                                       colortable, images, blocktype, err, warnings>>

KeptControl == graphic_control

\* graphic_control = None, once the image holds it
ClearedControl == None

\* img = GifImage(gifstream, graphic_control); graphic_control = None; images.append(img)
DispatchImageFrom(windows) ==
    /\ pc = "dispatch"
    /\ blocktype = BT_IMAGE_DATA
    /\ \E w \in {x \in windows : SubSeq(x, 1, 2) = ahead} :
          LET r == GifImage(Cursor(w), graphic_control)
          IN  IF r.err # NoException THEN Fail(r.err, position + r.c.position, w)
              ELSE /\ images' = Append(images, r.value)
                   /\ graphic_control' = ClearedControl
                   /\ Advance(r, w)
                   /\ history' = Dispatched
                   /\ pc' = "check"
                   /\ UNCHANGED <<closed, version, logical_screen_descriptor, colortable,
                                  blocktype, err, warnings>>

DispatchImage(packedSet) == DispatchImageFrom(ImageWindows(packedSet))

DispatchUnknownExtensionClearing ==
    /\ pc = "dispatch"
    /\ blocktype = BT_EXT_UNKNOWN
    /\ \E w \in {x \in ExtensionWindows : SubSeq(x, 1, 2) = ahead} :
          LET r == skip_extension(Cursor(w))
          IN  IF r.err # NoException THEN Fail(r.err, position + r.c.position, w)
              ELSE /\ Advance(r, w)
                   /\ history' = Dispatched
                   /\ pc' = "check"
                   /\ graphic_control' = None
                   /\ UNCHANGED <<closed, version, logical_screen_descriptor, colortable,
                                  images, blocktype, err, warnings>>

\* gifstream.skip_extension()
DispatchUnknownExtension ==
    /\ pc = "dispatch"
    /\ blocktype = BT_EXT_UNKNOWN
    /\ \E w \in {x \in ExtensionWindows : SubSeq(x, 1, 2) = ahead} :
          LET r == skip_extension(Cursor(w))
          IN  IF r.err # NoException THEN Fail(r.err, position + r.c.position, w)
              ELSE /\ Advance(r, w)
                   /\ history' = Dispatched
                   /\ pc' = "check"
                   /\ UNCHANGED <<closed, version, logical_screen_descriptor, colortable,
                                  graphic_control, images, blocktype, err, warnings>>

Next ==
    \/ ConsumeHeader
    \/ ConsumeScreenDescriptor(ScreenPackedInputs)
    \/ GlobalColorTable
    \/ CheckBlocktype(BlockSignatures, MaxBlocks)
    \/ DispatchTrailer
    \/ DispatchGraphicControl(GraphicControlPackedInputs)
    \/ DispatchImage(ImagePackedInputs)
    \/ DispatchUnknownExtension

Spec == Init /\ [][Next]_vars

\* The parse up to the classification of the first block, for every result of read(2).
NextClassify ==
    \/ ConsumeHeader
    \/ ConsumeScreenDescriptor(NoTableScreenPacked)
    \/ GlobalColorTable
    \/ CheckBlocktype(AllSignatures, MaxBlocks)

SpecClassify == Init /\ [][NextClassify]_vars

\* The parse of files of graphic control blocks, for every packed byte.
NextGraphicControl ==
    \/ ConsumeHeader
    \/ ConsumeScreenDescriptor(NoTableScreenPacked)
    \/ GlobalColorTable
    \/ CheckBlocktype(GraphicControlSignature, MaxBlocks)
    \/ DispatchTrailer
    \/ DispatchGraphicControl(AllBytes)

SpecGraphicControl == Init /\ [][NextGraphicControl]_vars

\* The parse of files of image blocks, for every color table size code.
NextTables ==
    \/ ConsumeHeader
    \/ ConsumeScreenDescriptor(TablePackedInputs)
    \/ GlobalColorTable
    \/ CheckBlocktype(ImageSignature, MaxTableBlocks)
    \/ DispatchTrailer
    \/ DispatchImage(TablePackedInputs)

SpecTables == Init /\ [][NextTables]_vars

\* The parse of files of image blocks, for chains of sub-blocks of many lengths.
NextChains ==
    \/ ConsumeHeader
    \/ ConsumeScreenDescriptor(NoTableScreenPacked)
    \/ GlobalColorTable
    \/ CheckBlocktype(ImageSignature, MaxChainBlocks)
    \/ DispatchTrailer
    \/ DispatchImageFrom(ChainImageWindows)

SpecChains == Init /\ [][NextChains]_vars

\* The parse run to its end: __parse_metadata is one sequential call, which
\* takes its next step whenever it has one.
NextLive ==
    \/ ConsumeHeader
    \/ ConsumeScreenDescriptor(ScreenPackedInputs)
    \/ GlobalColorTable
    \/ CheckBlocktype(BlockSignatures, MaxLiveBlocks)
    \/ DispatchTrailer
    \/ DispatchGraphicControl(GraphicControlPackedInputs)
    \/ DispatchImage(ImagePackedInputs)
    \/ DispatchUnknownExtension

SpecLive == Init /\ [][NextLive]_vars /\ WF_vars(NextLive)

TypeOK ==
    /\ pc \in {"header", "screen", "colortable", "check", "dispatch", "done", "failed"}
    /\ position \in Nat
    /\ (pc = "failed") = (err # NoException)

----------------------------------------------------------------------------
(* The blocks of the file, as the dispatch loop met them *)

ImagePositions == {i \in 1..Len(history) : history[i].blocktype = BT_IMAGE_DATA}

\* The place in history of the block that images[k] was made from.
BlockOfImage(k) ==
    CHOOSE i \in ImagePositions : Cardinality({j \in ImagePositions : j <= i}) = k

\* The graphic control blocks dispatched since the image block before block i.
ControlsFor(i) ==
    {j \in 1..(i - 1) : /\ history[j].blocktype = BT_EXT_GRAPHIC_CONTROL
                        /\ \A m \in (j + 1)..(i - 1) : m \notin ImagePositions}

HasControl(k) == images[k].graphic_control # None

----------------------------------------------------------------------------
(* C1 *)

\* No parse that is still running has dispatched two graphic control blocks
\* with no image block between them.
C1_NoTwoControls ==
    \A i, j \in 1..Len(history) :
        (i < j /\ history[i].blocktype = BT_EXT_GRAPHIC_CONTROL
               /\ history[j].blocktype = BT_EXT_GRAPHIC_CONTROL)
        => \E m \in (i + 1)..(j - 1) : m \in ImagePositions

C1_Step ==
    (pc = "dispatch" /\ blocktype = BT_EXT_GRAPHIC_CONTROL /\ graphic_control # None)
    => (pc' = "failed" /\ err' = "TwoGraphicControl" /\ images' = <<>> /\ ~closed')

\* C1: when check_blocktype reports a graphic control block while a pending
\* graphic control value exists, the parse fails with the "Two graphic control
\* blocks" exception and makes no Gif; so no running parse has taken two
\* graphic control blocks without an image block between them.
C1_DuplicateControlFails == []C1_NoTwoControls /\ [][C1_Step]_vars

C1_Witness == pc = "failed" /\ err = "TwoGraphicControl"

----------------------------------------------------------------------------
(* C2 *)

C2_Attached ==
    /\ Len(images) = Cardinality(ImagePositions)
    /\ \A k \in 1..Len(images) :
          /\ Cardinality(ControlsFor(BlockOfImage(k))) <= 1
          /\ ControlsFor(BlockOfImage(k)) = {} => ~HasControl(k)
    /\ \A k, l \in 1..Len(images) :
          (k # l /\ HasControl(k) /\ HasControl(l))
          => images[k].graphic_control.block_offset # images[l].graphic_control.block_offset

C2_Step ==
    (pc = "dispatch" /\ blocktype = BT_IMAGE_DATA /\ pc' # "failed")
    => /\ Len(images') = Len(images) + 1
       /\ SubSeq(images', 1, Len(images)) = images
       /\ images'[Len(images')].graphic_control = graphic_control
       /\ graphic_control' = None

\* C2: dispatching an image block attaches the pending graphic control value
\* (absent or not) to the new GifImage and resets the pending value to absent;
\* no graphic control block is attached to two images, and an image with no
\* graphic control block since the image before it has graphic_control absent.
C2_AttachAndClear == []C2_Attached /\ [][C2_Step]_vars

C2_Witness ==
    /\ Len(images) = 2
    /\ HasControl(1)
    /\ ~HasControl(2)

----------------------------------------------------------------------------
(* C3 *)

\* C3 as stated: an image's graphic control extension comes from the block
\* dispatched immediately before the image block.
C3_ControlFromPrecedingBlock ==
    \A k \in 1..Len(images) :
        HasControl(k)
        => /\ BlockOfImage(k) > 1
           /\ history[BlockOfImage(k) - 1].blocktype = BT_EXT_GRAPHIC_CONTROL

\* C3, amended: an image has a graphic control extension attached exactly when
\* a graphic control block was dispatched since the image block before it; it
\* is that block's extension, and only unknown extension blocks lie between
\* that block and the image block.
C3_ControlFromLatestControlBlock ==
    \A k \in 1..Len(images) :
        LET i == BlockOfImage(k)
        IN  /\ HasControl(k) <=> ControlsFor(i) # {}
            /\ HasControl(k)
               => \E j \in ControlsFor(i) :
                     /\ images[k].graphic_control.block_offset = history[j].position
                     /\ \A m \in (j + 1)..(i - 1) : history[m].blocktype = BT_EXT_UNKNOWN

C3_Witness ==
    \E k \in 1..Len(images) :
        /\ HasControl(k)
        /\ BlockOfImage(k) > 1
        /\ history[BlockOfImage(k) - 1].blocktype = BT_EXT_UNKNOWN

----------------------------------------------------------------------------
(* C4 *)

\* C4: in every terminal state of a parse, done or failed, the stream is closed.
C4_ClosedOnEveryExit == pc \in {"done", "failed"} => closed

----------------------------------------------------------------------------
(* C5 *)

\* The table that the file holds for n entries, entry by entry in file order.
ExpectedTable(n) == [e \in 1..n |-> <<(e - 1) % 256, 255 - ((e - 1) % 256), 128>>]

\* Where the block after block i of history starts (the trailer after the last).
EndOfBlock(i) == IF i = Len(history) THEN position ELSE history[i + 1].position

FirstBlockAt == IF history = <<>> THEN position ELSE history[1].position

RECURSIVE SumOf(_)
SumOf(lens) == IF lens = <<>> THEN 0 ELSE Head(lens) + SumOf(Tail(lens))

\* C5: after a successful parse the global color table is present iff the
\* screen descriptor's flag is set, each image's local table is present iff its
\* descriptor's flag is set, and a present table is the 2^(size code + 1)
\* entries of the file in order, 3 * 2^(size code + 1) bytes having been consumed.
C5_TablesMatchDescriptors ==
    pc = "done" =>
       LET g == logical_screen_descriptor
       IN  /\ (colortable # NoColortable) = g.colortable_exists
           /\ g.colortable_size \in 0..7
           /\ g.colortable_exists => colortable = ExpectedTable(2 ^ (g.colortable_size + 1))
           /\ FirstBlockAt
                 = 13 + (IF g.colortable_exists THEN 3 * 2 ^ (g.colortable_size + 1) ELSE 0)
           /\ \A k \in 1..Len(images) :
                 LET d == images[k].image_descriptor
                     i == BlockOfImage(k)
                     table == IF d.colortable_exists THEN 3 * 2 ^ (d.colortable_size + 1) ELSE 0
                 IN  /\ (images[k].colortable # NoColortable) = d.colortable_exists
                     /\ d.colortable_size \in 0..7
                     /\ d.colortable_exists
                        => images[k].colortable = ExpectedTable(2 ^ (d.colortable_size + 1))
                     /\ \E lens \in ImageChains :
                           /\ SumOf(lens) = images[k].image_data_size
                           /\ EndOfBlock(i) - history[i].position
                                 = 10 + table + 1 + SumOf(lens) + Len(lens) + 1

C5_Witness ==
    /\ pc = "done"
    /\ Len(colortable) = 256
    /\ Len(images) = 1
    /\ Len(images[1].colortable) = 2

----------------------------------------------------------------------------
(* C6 *)

C6_Step ==
    pc = "header" =>
       LET w == window'
           signature == SubSeq(w, 1, Min(3, Len(w)))
           revision == SubSeq(w, 4, Min(6, Len(w)))
       IN  /\ (Len(w) >= 3 /\ signature # <<71, 73, 70>>)
              => (pc' = "failed" /\ err' = "BadSignature" /\ position' = 3)
           /\ (signature = <<71, 73, 70>> /\ Len(w) = 6
                  /\ revision \notin {<<56, 55, 97>>, <<56, 57, 97>>})
              => (pc' = "failed" /\ err' = "InvalidVersion")
           /\ (signature = <<71, 73, 70>> /\ revision = <<56, 55, 97>>)
              => (pc' = "screen" /\ version' = "GIF87a" /\ position' = 6)
           /\ (signature = <<71, 73, 70>> /\ revision = <<56, 57, 97>>)
              => (pc' = "screen" /\ version' = "GIF89a" /\ position' = 6)

\* C6: the header decode checks the signature first: 3 bytes other than "GIF"
\* fail with the signature error at position 3; else 3 bytes other than "87a",
\* "89a" fail with the version error; else the version is GIF87a for "87a" and
\* GIF89a for "89a", and the cursor is at 6.
C6_SignatureBeforeVersion == [][C6_Step]_vars

\* "GIX" and three more bytes: the failure leaves the cursor at 3.
C6_Witness ==
    /\ pc = "failed"
    /\ err = "BadSignature"
    /\ position = 3
    /\ Len(window) = 6
    /\ SubSeq(window, 1, 3) = <<71, 73, 88>>

----------------------------------------------------------------------------
(* C7 *)

Bit(x, k) == ((x \div (2 ^ k)) % 2) = 1

\* C7: the descriptor of an image just dispatched has interlace = bit 6,
\* sorted = bit 5, table present = bit 7 and size code = bits 0-2 of the packed
\* byte (the tenth byte of the block).
C7_InterlaceIsBit6 ==
    (pc = "check" /\ history # <<>>
        /\ history[Len(history)].blocktype = BT_IMAGE_DATA /\ Len(window) >= 10)
    => LET d == images[Len(images)].image_descriptor
           packed == window[10]
       IN  /\ d.interlace = Bit(packed, 6)
           /\ d.colortable_is_sorted = Bit(packed, 5)
           /\ d.colortable_exists = Bit(packed, 7)
           /\ d.colortable_size = packed % 8

----------------------------------------------------------------------------
(* C8 *)

\* A graphic control block that is wholly there is being decoded.
C8_Decoding ==
    /\ pc = "dispatch"
    /\ blocktype = BT_EXT_GRAPHIC_CONTROL
    /\ graphic_control = None
    /\ Len(window') = 8

\* C8 as stated: the decode completes for every packed byte.
C8_EveryCodeAccepted == [][C8_Decoding => pc' = "check"]_vars

C8_Step ==
    C8_Decoding =>
       LET code == (window'[4] \div 4) % 8
       IN  /\ code \in 0..3
              => /\ pc' = "check"
                 /\ graphic_control'.disposal_method
                       = <<"NONE", "NO_DISPOSE", "RESTORE_BACKGROUND", "RESTORE_PREVIOUS">>[code + 1]
           /\ code \in 4..7
              => (pc' = "failed" /\ err' = "ValueError" /\ position' = position + 8)

\* C8, amended: disposal codes 0-3 (bits 2-4 of the packed byte) map to NONE,
\* NO_DISPOSE, RESTORE_BACKGROUND, RESTORE_PREVIOUS; the reserved codes 4-7 are
\* rejected: DisposalMethod raises ValueError once the 8 bytes of the block are
\* consumed, and the parse fails.
C8_ReservedCodesRejected == [][C8_Step]_vars

C8_Witness ==
    /\ pc = "failed"
    /\ err = "ValueError"
    /\ Len(window) = 8
    /\ (window[4] \div 4) % 8 = 7

----------------------------------------------------------------------------
(* C9 *)

\* What check_blocktype raises on a file that ends too early: the "Unexpected end
\* of file" GifStreamException, and the IndexError of signature[0] when read(2)
\* returned nothing.
TruncationErrors == {"IndexError", "UnexpectedEOF"}

C9_Step ==
    pc = "check" =>
       LET s == window'
       IN  /\ position' = position
           /\ CASE Len(s) >= 1 /\ s[1] = 59 -> (pc' = "dispatch" /\ blocktype' = "TRAILER")
                [] Len(s) < 2 /\ ~(Len(s) >= 1 /\ s[1] = 59)
                      -> (pc' = "failed" /\ err' \in TruncationErrors)
                [] Len(s) = 2 /\ s[1] = 44 -> (pc' = "dispatch" /\ blocktype' = "IMAGE_DATA")
                [] Len(s) = 2 /\ s[1] = 33 /\ s[2] = 249
                      -> (pc' = "dispatch" /\ blocktype' = "EXT_GRAPHIC_CONTROL")
                [] Len(s) = 2 /\ s[1] = 33 /\ s[2] # 249
                      -> (pc' = "dispatch" /\ blocktype' = "EXT_UNKNOWN")
                [] OTHER -> (pc' = "failed" /\ err' = "UnknownBlock")

----------------------------------------------------------------------------
(* C10 *)

C10_NoTable ==
    (pc \in {"check", "dispatch", "done"} /\ ~logical_screen_descriptor.colortable_exists)
    => /\ warnings = 1
       /\ colortable = NoColortable
       /\ FirstBlockAt = 13
       /\ (pc = "done" /\ history = <<>>) => images = <<>>

C10_Step ==
    (pc = "colortable" /\ ~logical_screen_descriptor.colortable_exists)
    => (pc' = "check" /\ err' = "None" /\ warnings' = 1 /\ position' = 13)

\* C10: with the global table flag cleared the parse goes on: one "no global
\* color table" warning is printed, the global color table stays absent, no
\* byte is consumed, the first block is looked for at byte 13, and a trailer
\* there gives a Gif with no images.
C10_MissingGlobalTableIsAdvisory == []C10_NoTable /\ [][C10_Step]_vars

\* The least file: header, screen descriptor with no table, trailer.
C10_Witness ==
    /\ pc = "done"
    /\ ~logical_screen_descriptor.colortable_exists
    /\ position = 13
    /\ history = <<>>
    /\ images = <<>>
    /\ warnings = 1

----------------------------------------------------------------------------
(* C11 *)

\* The bytes of a sub-block chain with the given lengths: the data, the length
\* bytes and the zero terminator.
ChainLength(lens) == SumOf(lens) + Len(lens) + 1

C11_Order ==
    pc \in {"check", "dispatch", "done"}
    => /\ \A i \in 1..Len(history) : history[i].position < EndOfBlock(i)
       /\ FirstBlockAt <= position

C11_Step ==
    /\ position' >= position
    /\ pc = "check" => position' = position
    /\ (pc = "dispatch" /\ pc' = "check")
       => /\ history' = Append(history, [blocktype |-> blocktype, position |-> position])
          /\ blocktype = BT_EXT_GRAPHIC_CONTROL
             => \A size \in GraphicControlSizes, packed \in GraphicControlPackedInputs :
                   window' = GraphicControlBytes(size, packed) => position' = position + 8
          /\ blocktype = BT_IMAGE_DATA
             => \A packed \in ImagePackedInputs, lens \in ImageChains :
                   window' = ImageBytes(packed, lens)
                   => position' = position + 10
                                  + (IF Bit(packed, 7) THEN 3 * 2 ^ ((packed % 8) + 1) ELSE 0)
                                  + 1 + ChainLength(lens)
          /\ blocktype = BT_EXT_UNKNOWN
             => \A label \in ExtensionLabels, lens \in ExtensionChains :
                   window' = ExtensionBytes(label, lens)
                   => position' = position + 2 + ChainLength(lens)

\* C11: the cursor position never decreases; classifying a block does not move
\* it; and a dispatched block that is whole in the file moves it to the first
\* byte after the block: a graphic control block by 8 bytes whatever its block
\* size byte, an image block by 10 + (3 * 2^(size code + 1) with a local table)
\* + 1 + its sub-block chain with the terminator, an unknown extension by 2 +
\* its chain with the terminator. Each block starts where the one before ended.
C11_CursorAccounting == []C11_Order /\ [][C11_Step]_vars

\* An image with a 4-color local table, a comment extension, and a graphic
\* control block whose block size byte is 0, each ending where the next starts.
C11_Witness ==
    /\ pc = "check"
    /\ Len(history) = 3
    /\ history[1].blocktype = BT_IMAGE_DATA
    /\ history[2].position - history[1].position = 10 + 12 + 1 + 6
    /\ history[2].blocktype = BT_EXT_UNKNOWN
    /\ history[3].position - history[2].position = 2 + 5
    /\ history[3].blocktype = BT_EXT_GRAPHIC_CONTROL
    /\ window = GraphicControlBytes(0, 9)
    /\ position = history[3].position + 8

----------------------------------------------------------------------------
(* C12 *)

C12_Step ==
    (pc = "dispatch" /\ blocktype = BT_IMAGE_DATA)
    => \A lens \in ChainInputs :
          window' = ImageBytes(0, lens)
          => LET r == skip_data(Cursor(ChainBytes(lens)))
             IN  /\ r.err = NoException
                 /\ r.value = SumOf(lens)
                 /\ r.c.position = SumOf(lens) + Len(lens) + 1
                 /\ r.c.position = Len(ChainBytes(lens))
                 /\ pc' = "check"
                 /\ images' = Append(images, images'[Len(images')])
                 /\ images'[Len(images')].image_data_size = SumOf(lens)
                 /\ position' = position + 10 + 1 + SumOf(lens) + Len(lens) + 1

\* C12: for a chain of sub-blocks of lengths L1..Ln (each 1..255) and its zero
\* terminator, skip_data returns L1 + ... + Ln (0 for the empty chain) and
\* leaves the cursor (L1 + ... + Ln) + n + 1 bytes on, on the byte after the
\* terminator; and the image_data_size of a GifImage is that sum for the chain
\* after the LZW code size byte.
C12_SkipDataSums == [][C12_Step]_vars

\* An image whose data is a sub-block of 255 bytes and one of 3.
C12_Witness ==
    /\ pc = "check"
    /\ window = ImageBytes(0, <<255, 3>>)
    /\ Len(images) = 1
    /\ images[1].image_data_size = 258
    /\ position = 13 + 11 + 258 + 2 + 1

----------------------------------------------------------------------------
(* C13 *)

\* The image and extension blocks that are whole in the file.
WholeBlocks ==
    {ImageBytes(packed, lens) : packed \in ImagePackedInputs, lens \in ImageChains}
    \cup {ExtensionBytes(label, lens) : label \in ExtensionLabels, lens \in ExtensionChains}

C13_Done ==
    pc = "done"
    => /\ err = NoException
       /\ blocktype = BT_TRAILER
       /\ Len(ahead) >= 1
       /\ ahead[1] = TRAILER_LABEL

C13_Step ==
    /\ pc' = "done" => (pc = "dispatch" /\ Len(ahead) >= 1 /\ ahead[1] = TRAILER_LABEL)
    /\ (pc = "check" /\ (eof \/ window' = <<>>))
       => (pc' = "failed" /\ err' \in TruncationErrors)
    /\ (pc = "dispatch" /\ blocktype \in {BT_IMAGE_DATA, BT_EXT_UNKNOWN}
           /\ window' \notin WholeBlocks)
       => (pc' = "failed" /\ err' = "ShortRead")
    /\ (pc = "dispatch" /\ pc' = "check") => position' > position
    /\ pc \in {"done", "failed"} => pc' = pc

\* C13: the parse of a finite file ends, done or failed; it is done only when
\* check_blocktype found the trailer byte at the cursor; a file that has ended
\* where a block should start, or inside the sub-blocks of an image or an
\* extension, fails; and each turn of the loop moves the cursor on.
C13_EndsAtTrailerOrFails ==
    /\ []C13_Done
    /\ [][C13_Step]_vars
    /\ <>(pc \in {"done", "failed"})

\* A file that ends after its graphic control block, where the next block
\* should start: header, screen descriptor with no table, 8 bytes, no trailer.
C13_Witness ==
    /\ pc = "failed"
    /\ err = "IndexError"
    /\ window = <<>>
    /\ position = 13 + 8
    /\ warnings = 1

====
